---- MODULE Spec2Model ----
(***************************************************************************)
(* Plan execution with single-level fallback, as implemented by            *)
(* LLMOrchestrator.execute_research_plan and execute_fallback (llm.py),    *)
(* and around it the MCPClient (client.py) and the ResearchConsole         *)
(* (console.py) that discover capabilities, plan, execute and analyse.     *)
(*                                                                         *)
(* Python dicts are functions from key strings to values; a key that was   *)
(* never set is outside the DOMAIN.  The capability client passed in as    *)
(* mcp_client is an external collaborator: every call it receives either   *)
(* returns a payload or raises.  The awaits on the client are the only     *)
(* suspension points, so the executor is cut into actions at them.         *)
(*                                                                         *)
(* Plans are JSON objects as plan_research parses them: 'steps', when      *)
(* present, is a list of dicts.  Step values and payloads are drawn from   *)
(* small sets: each known type, an unknown type, a missing 'type' key,     *)
(* and fallbacks that call, have an unknown type, cannot be read, are      *)
(* empty, or carry a fallback of their own.                                *)
(***************************************************************************)
EXTENDS Naturals, Sequences, FiniteSets, TLC

VARIABLES
    plan,         \* the plan dict handed to execute_research_plan
    pc,           \* position of the coroutine
    idx,          \* number of plan steps the for loop has taken
    step_result,  \* the step_result dict of the current iteration
    results,      \* the results dict under construction
    calls,        \* every call made on mcp_client, in order
    exc,          \* the exception that left execute_research_plan, if any
    env,          \* the process environment: credentials, server script
    mcp_client,   \* the MCPClient object: session, exit_stack, capabilities
    console,      \* the ResearchConsole object
    run_pc,       \* position of the console's caller
    ext,          \* every request sent to the server or the language model,
                  \* and every message printed on the terminal
    ret,          \* how the last call on the client or the console ended
    asked         \* lines read from the terminal, or queries submitted

\* the state outside execute_research_plan
session_vars == <<env, mcp_client, console, run_pc, ext, ret, asked>>

vars == <<plan, pc, idx, step_result, results, calls, exc, session_vars>>

-----------------------------------------------------------------------------
(* Bounds *)

MaxSteps == 2

-----------------------------------------------------------------------------
(* dict helpers *)

Has(d, k) == k \in DOMAIN d

Put(d, k, v) == [x \in DOMAIN d \cup {k} |-> IF x = k THEN v ELSE d[x]]

EmptyDict == <<>>

\* bool() of a dict: an empty dict is falsy
TruthyDict(d) == DOMAIN d # {}

\* bool() of a payload returned by the client: the empty payload is falsy
TruthyPayload(v) == v # ""

-----------------------------------------------------------------------------
(* Inputs: plans *)

ToolStep == [type |-> "tool", name |-> "search", parameters |-> "q"]

ResourceStep == [type |-> "resource", uri |-> "doc"]

PromptStep == [type |-> "prompt", name |-> "summarize", arguments |-> "a"]

\* a type that is none of tool / resource / prompt
OtherStep == [type |-> "shell", name |-> "ls"]

\* no 'type' key at all: reading the step raises KeyError
NoTypeStep == [name |-> "search"]

\* the fallback of a fallback
NestedStep == [type |-> "tool", name |-> "search", parameters |-> "deeper"]

BaseSteps == {ToolStep, ResourceStep, PromptStep, OtherStep, NoTypeStep}

\* what a step's 'fallback' key can hold; a fallback may itself carry a
\* 'fallback' key
FallbackSteps ==
    {Put(ToolStep, "fallback", NestedStep), ResourceStep, OtherStep, NoTypeStep}

\* every base step alone and with every fallback, and one whose 'fallback'
\* is an empty dict
Steps ==
    BaseSteps
    \cup {Put(b, "fallback", f) : b \in BaseSteps, f \in FallbackSteps}
    \cup {Put(ToolStep, "fallback", EmptyDict)}

RECURSIVE SeqsUpTo(_, _)
SeqsUpTo(S, n) ==
    IF n = 0 THEN {<<>>}
    ELSE LET shorter == SeqsUpTo(S, n - 1)
         IN  shorter \cup {Append(s, x) : s \in {t \in shorter : Len(t) = n - 1}, x \in S}

\* a plan is {'steps': [...]}, or a dict without 'steps' (the error value
\* plan_research returns for an unparseable reply)
ErrorPlan == [error |-> "Invalid JSON response"]

Plans == {[steps |-> s] : s \in SeqsUpTo(Steps, MaxSteps)} \cup {ErrorPlan}

\* payloads the client can return; "" is a falsy one
Payloads == {"", "p1"}

-----------------------------------------------------------------------------
(* Exceptions: [exc, msg]; str(e) is the message *)

KeyError(k) == [exc |-> "KeyError", msg |-> "'" \o k \o "'"]

ValueError(m) == [exc |-> "ValueError", msg |-> m]

\* whatever the client raises
ClientError == [exc |-> "Exception", msg |-> "call failed"]

Str(e) == e.msg

NoException == [exc |-> "none", msg |-> ""]

-----------------------------------------------------------------------------
(* Dispatch: the if / elif chain up to the await.  The result says what    *)
(* the chain does: raise before any call, make one client call, or match   *)
(* no branch.                                                              *)

Raise(e) == [kind |-> "raise", e |-> e]

Call(op, args) == [kind |-> "call", op |-> op, args |-> args]

NoBranch == [kind |-> "none"]

\* llm.py 120-138: subscripts are evaluated left to right before the call
Dispatch(step) ==
    IF ~Has(step, "type") THEN Raise(KeyError("type"))
    ELSE IF step.type = "tool" THEN
        IF ~Has(step, "name") THEN Raise(KeyError("name"))
        ELSE IF ~Has(step, "parameters") THEN Raise(KeyError("parameters"))
        ELSE Call("execute_tool", <<step.name, step.parameters>>)
    ELSE IF step.type = "resource" THEN
        IF ~Has(step, "uri") THEN Raise(KeyError("uri"))
        ELSE Call("read_resource", <<step.uri>>)
    ELSE IF step.type = "prompt" THEN
        IF ~Has(step, "name") THEN Raise(KeyError("name"))
        ELSE IF ~Has(step, "arguments") THEN Raise(KeyError("arguments"))
        ELSE Call("get_prompt", <<step.name, step.arguments>>)
    ELSE NoBranch

\* as FallbackDispatch, but descending into the fallback's own fallback
FallbackDispatchNested(fallback) ==
    LET f == IF Has(fallback, "fallback") THEN fallback.fallback ELSE fallback
        d == Dispatch(f)
    IN  IF d.kind = "none"
        THEN Raise(ValueError("Unknown fallback type: " \o f.type))
        ELSE d

\* llm.py 221-237: the same chain with an else arm that raises
FallbackDispatch(fallback) ==
    IF ~Has(fallback, "type") THEN Raise(KeyError("type"))
    ELSE IF fallback.type = "tool" THEN
        IF ~Has(fallback, "name") THEN Raise(KeyError("name"))
        ELSE IF ~Has(fallback, "parameters") THEN Raise(KeyError("parameters"))
        ELSE Call("execute_tool", <<fallback.name, fallback.parameters>>)
    ELSE IF fallback.type = "resource" THEN
        IF ~Has(fallback, "uri") THEN Raise(KeyError("uri"))
        ELSE Call("read_resource", <<fallback.uri>>)
    ELSE IF fallback.type = "prompt" THEN
        IF ~Has(fallback, "name") THEN Raise(KeyError("name"))
        ELSE IF ~Has(fallback, "arguments") THEN Raise(KeyError("arguments"))
        ELSE Call("get_prompt", <<fallback.name, fallback.arguments>>)
    ELSE Raise(ValueError("Unknown fallback type: " \o fallback.type))

-----------------------------------------------------------------------------
(* The executor's bookkeeping *)

\* datetime.now().isoformat(): the value is not modelled, only which keys
\* have been stamped
Timestamp == "ts"

RECURSIVE Reverse(_)
Reverse(q) == IF q = <<>> THEN <<>> ELSE Append(Reverse(Tail(q)), Head(q))

\* as PlanSteps, but walking the list from the back
PlanStepsReversed(p) == IF Has(p, "steps") THEN Reverse(p.steps) ELSE <<>>

\* plan.get('steps', [])
PlanSteps(p) == IF Has(p, "steps") THEN p.steps ELSE <<>>

\* llm.py 101-109
NewResults ==
    [steps |-> <<>>,
     data |-> <<>>,
     metadata |-> [start_time |-> Timestamp, success_count |-> 0, failure_count |-> 0]]

\* llm.py 113-117
NewStepResult(step) == [step |-> step, status |-> "pending", start_time |-> Timestamp]

\* as StoreData, but the result is dropped
StoreDataDropped(sr, result) == sr

\* llm.py 125 / 131 / 138
StoreData(sr, result) == Put(sr, "data", result)

\* llm.py 140-141
MarkCompleted(sr) == Put(Put(sr, "status", "completed"), "end_time", Timestamp)

\* as CountSuccess, but booked on the wrong counter
CountSuccessAsFailure(res) ==
    [res EXCEPT !.metadata.failure_count = res.metadata.failure_count + 1]

\* llm.py 142
CountSuccess(res) ==
    [res EXCEPT !.metadata.success_count = res.metadata.success_count + 1]

\* as MarkFailed, but the message is not stored
MarkFailedNoError(sr, e) == Put(Put(sr, "status", "failed"), "end_time", Timestamp)

\* llm.py 145-147
MarkFailed(sr, e) ==
    Put(Put(Put(sr, "status", "failed"), "error", Str(e)), "end_time", Timestamp)

\* as CountFailure, but the failure is not counted
CountFailureMissed(res) == res

\* llm.py 148
CountFailure(res) ==
    [res EXCEPT !.metadata.failure_count = res.metadata.failure_count + 1]

\* llm.py 151: step.get('fallback') is truthy
WantsFallback(step) == Has(step, "fallback") /\ TruthyDict(step.fallback)

\* as FallbackSucceeded, but the status stays as it was
FallbackSucceededNoUpgrade(sr, fallback_result) == Put(sr, "fallback_data", fallback_result)

\* llm.py 157-158
FallbackSucceeded(sr, fallback_result) ==
    Put(Put(sr, "fallback_data", fallback_result), "status", "completed_with_fallback")

\* llm.py 160
FallbackFailed(sr, fallback_e) == Put(sr, "fallback_error", Str(fallback_e))

\* llm.py 163: step_result.get('data') is truthy
HasData(sr) == Has(sr, "data") /\ TruthyPayload(sr.data)

\* llm.py 162-164
AppendStepResult(res, sr) ==
    [res EXCEPT !.steps = Append(res.steps, sr),
                !.data = IF HasData(sr) THEN Append(res.data, sr.data) ELSE res.data]

\* as StampEnd, but the report is returned as it is
StampEndMissing(res) == res

\* llm.py 166
StampEnd(res) == [res EXCEPT !.metadata = Put(res.metadata, "end_time", Timestamp)]

\* the classes of the exceptions raised in the model
ExceptionClasses ==
    {"KeyError", "ValueError", "Exception", "AttributeError", "FileNotFoundError", "EOFError"}

\* as ExceptException, but written as 'except (KeyError, RuntimeError)'
ExceptNarrow(e) == e.exc \in {"KeyError", "Exception"}

\* 'except Exception': everything the model raises derives from Exception
ExceptException(e) == e.exc \in ExceptionClasses

-----------------------------------------------------------------------------
(* The client's call log: one record per call, with the client's reply     *)

Pending == [kind |-> "pending"]

Returned(v) == [kind |-> "return", value |-> v]

Raised(e) == [kind |-> "raise", e |-> e]

CallRecord(phase, i, d) ==
    [phase |-> phase, index |-> i, op |-> d.op, args |-> d.args, reply |-> Pending]

\* the reply to the call in flight, which is the last one logged
Reply(log, r) == [log EXCEPT ![Len(log)].reply = r]

-----------------------------------------------------------------------------
(* The objects around the executor, as constructed *)

\* client.py 19-27: MCPClient.__init__
NewMCPClient ==
    [session |-> "None",
     exit_stack |-> <<>>,
     capabilities |-> [tools |-> <<>>, resources |-> <<>>, prompts |-> <<>>]]

\* an Optional value: None, or the value itself
None == <<>>
Some(x) == <<x>>

\* console.py 20-25: ResearchConsole.__init__
NewConsole ==
    [session_active |-> FALSE,
     llm |-> "None",
     current_query |-> None,
     results |-> <<>>]

\* nothing has been called yet
NoReturn == [op |-> "none"]

\* a call that ran to its return statement
ReturnedFrom(op, v) == [op |-> op, outcome |-> "returned", value |-> v]

\* a call left by an exception
RaisedFrom(op, e) == [op |-> op, outcome |-> "raised", value |-> e]

\* one request sent outside the process, and whether it was answered
Request(to, request, ok) == [to |-> to, request |-> request, ok |-> ok]

\* both credentials set and the server script installed
FullEnv == [ANTHROPIC_API_KEY |-> TRUE, TAVILY_API_KEY |-> TRUE, server_script |-> TRUE]

-----------------------------------------------------------------------------
(* Control flow *)

\* llm.py 169-171: the outer handler logs and re-raises
Propagate(e, log) ==
    /\ pc' = "raised"
    /\ exc' = e
    /\ calls' = log
    /\ UNCHANGED <<step_result, results>>

\* llm.py 162-164, then back to the head of the for loop
EndIteration(res, sr, log) ==
    /\ step_result' = sr
    /\ results' = AppendStepResult(res, sr)
    /\ calls' = log
    /\ pc' = "loop"
    /\ UNCHANGED exc

\* llm.py 159-160: the fallback raised fallback_e
FallbackRaised(res, sr, fallback_e, log) ==
    IF ExceptException(fallback_e)
    THEN EndIteration(res, FallbackFailed(sr, fallback_e), log)
    ELSE Propagate(fallback_e, log)

\* llm.py 144-160: the primary dispatch of step number i raised e
PrimaryRaised(i, sr, e, log) ==
    IF ~ExceptException(e) THEN Propagate(e, log)
    ELSE LET sr1 == MarkFailed(sr, e)
             res1 == CountFailure(results)
             step == sr.step
         IN  IF ~WantsFallback(step) THEN EndIteration(res1, sr1, log)
             ELSE LET d == FallbackDispatch(step.fallback)
                  IN  IF d.kind = "call"
                      THEN /\ calls' = Append(log, CallRecord("fallback", i, d))
                           /\ step_result' = sr1
                           /\ results' = res1
                           /\ pc' = "await_fallback"
                           /\ UNCHANGED exc
                      ELSE FallbackRaised(res1, sr1, d.e, log)

\* llm.py 99-109: execute_research_plan is entered
Enter ==
    /\ pc = "idle"
    /\ results' = NewResults
    /\ pc' = "loop"
    /\ UNCHANGED <<plan, idx, step_result, calls, exc>>
    /\ UNCHANGED session_vars

\* llm.py 112-138: the loop takes the next step and awaits the client
StepCall ==
    /\ pc = "loop"
    /\ idx < Len(PlanSteps(plan))
    /\ LET step == PlanSteps(plan)[idx + 1]
           d == Dispatch(step)
       IN  /\ d.kind = "call"
           /\ calls' = Append(calls, CallRecord("primary", idx + 1, d))
           /\ step_result' = NewStepResult(step)
           /\ pc' = "await_primary"
    /\ idx' = idx + 1
    /\ UNCHANGED <<plan, results, exc>>
    /\ UNCHANGED session_vars

\* llm.py 112-142, 162-164: no branch of the chain matches the step's type
StepNoBranch ==
    /\ pc = "loop"
    /\ idx < Len(PlanSteps(plan))
    /\ LET step == PlanSteps(plan)[idx + 1]
       IN  /\ Dispatch(step).kind = "none"
           /\ EndIteration(CountSuccess(results),
                           MarkCompleted(NewStepResult(step)), calls)
    /\ idx' = idx + 1
    /\ UNCHANGED plan
    /\ UNCHANGED session_vars

\* llm.py 112-120, 144-164: a subscript of the step raises KeyError
StepKeyError ==
    /\ pc = "loop"
    /\ idx < Len(PlanSteps(plan))
    /\ LET step == PlanSteps(plan)[idx + 1]
           d == Dispatch(step)
       IN  /\ d.kind = "raise"
           /\ PrimaryRaised(idx + 1, NewStepResult(step), d.e, calls)
    /\ idx' = idx + 1
    /\ UNCHANGED plan
    /\ UNCHANGED session_vars

\* llm.py 121-142, 162-164: the awaited client call returns result
PrimaryReturn ==
    /\ pc = "await_primary"
    /\ \E result \in Payloads :
           EndIteration(CountSuccess(results),
                        MarkCompleted(StoreData(step_result, result)),
                        Reply(calls, Returned(result)))
    /\ UNCHANGED <<plan, idx>>
    /\ UNCHANGED session_vars

\* llm.py 144-160: the awaited client call raises
PrimaryRaise ==
    /\ pc = "await_primary"
    /\ PrimaryRaised(idx, step_result, ClientError, Reply(calls, Raised(ClientError)))
    /\ UNCHANGED <<plan, idx>>
    /\ UNCHANGED session_vars

\* llm.py 153-158, 162-164: the awaited fallback call returns
FallbackReturn ==
    /\ pc = "await_fallback"
    /\ \E fallback_result \in Payloads :
           EndIteration(results,
                        FallbackSucceeded(step_result, fallback_result),
                        Reply(calls, Returned(fallback_result)))
    /\ UNCHANGED <<plan, idx>>
    /\ UNCHANGED session_vars

\* llm.py 239-241, 159-164: the awaited fallback call raises; execute_fallback
\* logs and re-raises
FallbackRaise ==
    /\ pc = "await_fallback"
    /\ FallbackRaised(results, step_result, ClientError,
                      Reply(calls, Raised(ClientError)))
    /\ UNCHANGED <<plan, idx>>
    /\ UNCHANGED session_vars

\* llm.py 166-167: the loop is exhausted
Return ==
    /\ pc = "loop"
    /\ idx = Len(PlanSteps(plan))
    /\ results' = StampEnd(results)
    /\ pc' = "returned"
    /\ UNCHANGED <<plan, idx, step_result, calls, exc>>
    /\ UNCHANGED session_vars

Init ==
    /\ plan \in Plans
    /\ pc = "idle"
    /\ idx = 0
    /\ step_result = EmptyDict
    /\ results = EmptyDict
    /\ calls = <<>>
    /\ exc = NoException
    /\ env = FullEnv
    /\ mcp_client = NewMCPClient
    /\ console = NewConsole
    /\ run_pc = "none"
    /\ ext = <<>>
    /\ ret = NoReturn
    /\ asked = 0

Next ==
    \/ Enter
    \/ StepCall
    \/ StepNoBranch
    \/ StepKeyError
    \/ PrimaryReturn
    \/ PrimaryRaise
    \/ FallbackReturn
    \/ FallbackRaise
    \/ Return

Spec == Init /\ [][Next]_vars

-----------------------------------------------------------------------------
(* Vocabulary of the properties, read off the plan and the call log alone  *)

\* the steps as given in the input
InputSteps == IF "steps" \in DOMAIN plan THEN plan.steps ELSE <<>>

N == Len(InputSteps)

Entered == pc \notin {"idle", "not called"}

Done == pc = "returned"

\* the step results appended to the report so far
Reported == IF Entered THEN DOMAIN results.steps ELSE {}

KnownTypes == {"tool", "resource", "prompt"}

RequiredKeys(t) ==
    CASE t = "tool" -> {"name", "parameters"}
      [] t = "resource" -> {"uri"}
      [] t = "prompt" -> {"name", "arguments"}

UnknownType(s) == "type" \in DOMAIN s /\ s.type \notin KnownTypes

\* the type names a client operation and its arguments are there
WellFormed(s) ==
    /\ "type" \in DOMAIN s
    /\ s.type \in KnownTypes
    /\ RequiredKeys(s.type) \subseteq DOMAIN s

\* reading the step fails before any client call can be made
Unreadable(s) == ~WellFormed(s) /\ ~UnknownType(s)

\* the client operation and arguments a well-formed step stands for
Invocation(s) ==
    CASE s.type = "tool" -> <<"execute_tool", <<s.name, s.parameters>>>>
      [] s.type = "resource" -> <<"read_resource", <<s.uri>>>>
      [] s.type = "prompt" -> <<"get_prompt", <<s.name, s.arguments>>>>

DeclaresFallback(s) == "fallback" \in DOMAIN s /\ s.fallback # <<>>

\* positions in the call log of the calls made for step i in a phase
CallsFor(phase, i) ==
    {k \in DOMAIN calls : calls[k].phase = phase /\ calls[k].index = i}

CallRaised(phase, i) == \E k \in CallsFor(phase, i) : calls[k].reply.kind = "raise"

CallReturned(phase, i, v) ==
    \E k \in CallsFor(phase, i) :
        calls[k].reply.kind = "return" /\ calls[k].reply.value = v

\* the primary attempt of step i failed: its call raised, or the step could
\* not be read
PrimaryFailedAt(i) == CallRaised("primary", i) \/ Unreadable(InputSteps[i])

\* the fallback attempt of step i failed: its call raised, or the fallback
\* has an unknown type or could not be read
FallbackFailedAt(i) ==
    \/ CallRaised("fallback", i)
    \/ /\ DeclaresFallback(InputSteps[i])
       /\ ~WellFormed(InputSteps[i].fallback)

Count(P(_)) == Cardinality({i \in Reported : P(results.steps[i])})

IsCompleted(sr) == sr.status = "completed"

IsFailed(sr) == sr.status = "failed"

IsRecovered(sr) == sr.status = "completed_with_fallback"

IsFailedOrRecovered(sr) == IsFailed(sr) \/ IsRecovered(sr)

-----------------------------------------------------------------------------
(* Properties *)

\* C1: execute_research_plan never raises, and the report it returns for a
\* plan of N steps has exactly N entries in 'steps' and
\* success_count + failure_count = N, whatever the client calls did.
C1_StepsAndCounts ==
    /\ pc # "raised"
    /\ Done =>
        /\ Len(results.steps) = N
        /\ results.metadata.success_count + results.metadata.failure_count = N

C1_Witness ==
    /\ Done
    /\ N >= 2
    /\ results.metadata.success_count >= 1
    /\ results.metadata.failure_count >= 1

\* C2: a step whose 'type' is present but is none of tool / resource /
\* prompt never makes the executor raise, is reported with status failed and
\* an error message, is not counted as a success, and the steps after it are
\* still executed.
C2_UnknownTypeFails ==
    /\ pc # "raised"
    /\ \A i \in Reported :
           UnknownType(InputSteps[i]) =>
               /\ results.steps[i].status = "failed"
               /\ "error" \in DOMAIN results.steps[i]
    /\ Done =>
        /\ Len(results.steps) = N
        /\ results.metadata.failure_count
               >= Cardinality({i \in 1..N : UnknownType(InputSteps[i])})

\* the data a reported step ultimately produced: the primary's for a
\* completed step, the fallback's for a recovered one (empty payloads are
\* not counted as data)
ProducedBy(sr) ==
    IF IsCompleted(sr) /\ "data" \in DOMAIN sr /\ sr.data # "" THEN <<sr.data>>
    ELSE IF IsRecovered(sr) /\ sr.fallback_data # "" THEN <<sr.fallback_data>>
    ELSE <<>>

RECURSIVE Produced(_)
Produced(srs) ==
    IF srs = <<>> THEN <<>> ELSE ProducedBy(Head(srs)) \o Produced(Tail(srs))

\* C3: the report's 'data' holds, in step order, exactly one payload for
\* every step that ultimately produced data, the primary call's return value
\* for a completed step and the fallback's for a step completed with
\* fallback.
C3_DataHoldsEveryPayload == Done => results.data = Produced(results.steps)

\* C4: a step whose primary attempt failed and whose fallback call returned
\* is reported completed_with_fallback, with 'error' holding the primary
\* failure, 'fallback_data' the value the fallback returned, and no
\* 'fallback_error'.
C4_FallbackRecovers ==
    \A k \in DOMAIN calls :
        LET i == calls[k].index
        IN  ( /\ calls[k].phase = "fallback"
              /\ calls[k].reply.kind = "return"
              /\ i \in Reported
              /\ PrimaryFailedAt(i) ) =>
                LET sr == results.steps[i]
                IN  /\ sr.status = "completed_with_fallback"
                    /\ "error" \in DOMAIN sr
                    /\ \A j \in CallsFor("primary", i) : sr.error = calls[j].reply.e.msg
                    /\ "fallback_data" \in DOMAIN sr
                    /\ sr.fallback_data = calls[k].reply.value
                    /\ "fallback_error" \notin DOMAIN sr

C4_Witness ==
    /\ Done
    /\ \E i \in Reported :
           /\ CallRaised("primary", i)
           /\ CallReturned("fallback", i, "p1")

\* C5: a step whose primary attempt failed and whose fallback failed too
\* (its call raised, or it has an unknown type) is reported failed with
\* 'error' and 'fallback_error' set and no 'fallback_data', and the
\* fallback's failure never leaves execute_research_plan.
C5_FallbackFailureAbsorbed ==
    /\ pc # "raised"
    /\ \A i \in Reported :
           (PrimaryFailedAt(i) /\ FallbackFailedAt(i)) =>
               LET sr == results.steps[i]
               IN  /\ sr.status = "failed"
                   /\ "error" \in DOMAIN sr
                   /\ "fallback_error" \in DOMAIN sr
                   /\ \A k \in CallsFor("fallback", i) :
                          sr.fallback_error = calls[k].reply.e.msg
                   /\ "fallback_data" \notin DOMAIN sr

C5_Witness ==
    /\ Done
    /\ \E i \in Reported :
           CallRaised("primary", i) /\ CallRaised("fallback", i)
    /\ \E i \in Reported :
           /\ CallRaised("primary", i)
           /\ DeclaresFallback(InputSteps[i])
           /\ UnknownType(InputSteps[i].fallback)

\* C6: a step whose primary attempt failed and that declares no fallback is
\* reported failed with 'error' set, with neither 'fallback_data' nor
\* 'fallback_error', and no further client call is made for it.
C6_NoFallbackNoRetry ==
    \A i \in Reported :
        (PrimaryFailedAt(i) /\ "fallback" \notin DOMAIN InputSteps[i]) =>
            LET sr == results.steps[i]
            IN  /\ sr.status = "failed"
                /\ "error" \in DOMAIN sr
                /\ "fallback_data" \notin DOMAIN sr
                /\ "fallback_error" \notin DOMAIN sr
                /\ CallsFor("fallback", i) = {}
                /\ Cardinality(CallsFor("primary", i)) <= 1

C6_Witness ==
    /\ Done
    /\ \E i \in Reported :
           /\ CallRaised("primary", i)
           /\ "fallback" \notin DOMAIN InputSteps[i]
           /\ i < N

\* C7: a step whose primary call returned is reported completed with 'data'
\* equal to the returned value, and its fallback, declared or not, is never
\* dispatched.
C7_SuccessNeedsNoFallback ==
    \A k \in DOMAIN calls :
        LET i == calls[k].index
        IN  (calls[k].phase = "primary" /\ calls[k].reply.kind = "return") =>
                /\ CallsFor("fallback", i) = {}
                /\ i \in Reported =>
                       /\ results.steps[i].status = "completed"
                       /\ "data" \in DOMAIN results.steps[i]
                       /\ results.steps[i].data = calls[k].reply.value
                /\ Done => i \in Reported

C7_Witness ==
    /\ Done
    /\ \E i \in Reported :
           /\ CallReturned("primary", i, "p1")
           /\ DeclaresFallback(InputSteps[i])
    /\ \E i \in Reported : CallReturned("primary", i, "")

\* the primary calls in the log, in the order they were made
PrimaryCalls == SelectSeq(calls, LAMBDA c : c.phase = "primary")

\* C8: the steps are taken exactly once each and in input order, whatever
\* the earlier steps did: the i-th entry of 'steps' is the result of the
\* i-th plan step, the calls in the log follow the plan's order, the
\* primary calls are those of the plan's well-formed steps, one per step (a
\* step of unknown type or with a missing key makes no call), and the
\* returned report covers every step.
C8_InputOrder ==
    /\ pc # "raised"
    /\ \A i \in Reported : i <= N /\ results.steps[i].step = InputSteps[i]
    /\ \A k \in DOMAIN calls :
           LET c == calls[k]
           IN  /\ c.index \in 1..N
               /\ k > 1 => calls[k - 1].index <= c.index
               /\ c.phase = "primary" =>
                      /\ WellFormed(InputSteps[c.index])
                      /\ <<c.op, c.args>> = Invocation(InputSteps[c.index])
                      /\ k > 1 => calls[k - 1].index < c.index
    /\ Done =>
        /\ Len(results.steps) = N
        /\ \A i \in 1..N :
               Cardinality(CallsFor("primary", i))
                   = IF WellFormed(InputSteps[i]) THEN 1 ELSE 0

C8_Witness ==
    /\ Done
    /\ N >= 2
    /\ Len(PrimaryCalls) = N
    /\ InputSteps[1] # InputSteps[2]
    /\ CallRaised("primary", 1)
    /\ CallRaised("fallback", 1)

\* C9: for each plan step at most one fallback call is made, it is made
\* only after that step's primary attempt has failed, it is the call of the
\* step's own fallback, and a fallback nested inside a fallback is never
\* dispatched, even when the first-level fallback fails.
C9_SingleLevelFallback ==
    \A k \in DOMAIN calls :
        calls[k].phase = "fallback" =>
            LET i == calls[k].index
                s == InputSteps[i]
            IN  /\ CallsFor("fallback", i) = {k}
                /\ \/ \E j \in 1..(k - 1) :
                          /\ j \in CallsFor("primary", i)
                          /\ calls[j].reply.kind = "raise"
                   \/ Unreadable(s) /\ CallsFor("primary", i) = {}
                /\ DeclaresFallback(s)
                /\ WellFormed(s.fallback)
                /\ <<calls[k].op, calls[k].args>> = Invocation(s.fallback)

C9_Witness ==
    /\ Done
    /\ \E i \in Reported :
           /\ CallRaised("primary", i)
           /\ CallRaised("fallback", i)
           /\ "fallback" \in DOMAIN InputSteps[i].fallback

\* C10: in the returned report success_count is the number of step results
\* with status completed and failure_count the number with status failed or
\* completed_with_fallback: a step recovered by its fallback counts as a
\* failure, never as a success.
C10_CountsByStatus ==
    Done =>
        /\ results.metadata.success_count = Count(IsCompleted)
        /\ results.metadata.failure_count = Count(IsFailedOrRecovered)

C10_Witness ==
    /\ Done
    /\ Count(IsRecovered) >= 1
    /\ Count(IsCompleted) >= 1

-----------------------------------------------------------------------------
(* Capability discovery: MCPClient.discover_capabilities (client.py 29-82) *)

MaxDiscoveries == 2

\* descriptors as the list comprehensions build them; the descriptive
\* fields are copied through and play no part in any decision
SearchTool == [name |-> "search"]
ExtractTool == [name |-> "extract"]
DocResource == [uri |-> "doc"]
SummarizePrompt == [name |-> "summarize"]

\* what the server can answer to a listing request
ListingFailed == [ok |-> FALSE]
Listed(items) == [ok |-> TRUE, items |-> items]
ToolListings ==
    {ListingFailed} \cup {Listed(l) : l \in {<<>>, <<SearchTool>>, <<SearchTool, ExtractTool>>}}
ResourceListings == {ListingFailed} \cup {Listed(l) : l \in {<<>>, <<DocResource>>}}
PromptListings == {ListingFailed} \cup {Listed(l) : l \in {<<>>, <<SummarizePrompt>>}}

\* a client whose session has been entered (client.py 112-114)
ConnectedClient(caps) ==
    [session |-> "ClientSession",
     exit_stack |-> <<"stdio_client", "ClientSession">>,
     capabilities |-> caps]

\* the capabilities after a discovery whose tool listing succeeded: each
\* list is assigned only when its listing returned; the handlers of the
\* resource and prompt listings log and assign nothing
Discovered(caps, t, r, p) ==
    LET c1 == [caps EXCEPT !.tools = t.items]
        c2 == IF r.ok THEN [c1 EXCEPT !.resources = r.items] ELSE c1
    IN IF p.ok THEN [c2 EXCEPT !.prompts = p.items] ELSE c2

\* the requests one discovery sends: nothing follows a failed tool listing
DiscoveryRequests(t, r, p) ==
    <<Request("server", "list_tools", t.ok)>> \o
    (IF t.ok
     THEN <<Request("server", "list_resources", r.ok),
            Request("server", "list_prompts", p.ok)>>
     ELSE <<>>)

ListToolsError == [exc |-> "Exception", msg |-> "list_tools failed"]

NumDiscoveries == Cardinality({i \in DOMAIN ext : ext[i].request = "list_tools"})

\* one call of discover_capabilities from outside
discover_capabilities ==
    /\ run_pc = "discovering"
    /\ NumDiscoveries < MaxDiscoveries
    /\ IF mcp_client.session = "None"
       THEN /\ ret' = RaisedFrom("discover_capabilities", ValueError("Client not initialized"))
            /\ UNCHANGED <<mcp_client, ext>>
       ELSE \E t \in ToolListings, r \in ResourceListings, p \in PromptListings :
            /\ ext' = ext \o DiscoveryRequests(t, r, p)
            /\ IF t.ok
               THEN /\ mcp_client' = [mcp_client EXCEPT
                                        !.capabilities = Discovered(@, t, r, p)]
                    /\ ret' = ReturnedFrom("discover_capabilities",
                                           mcp_client'.capabilities)
               ELSE /\ ret' = RaisedFrom("discover_capabilities", ListToolsError)
                    /\ UNCHANGED mcp_client
    /\ UNCHANGED <<plan, pc, idx, step_result, results, calls, exc>>
    /\ UNCHANGED <<env, console, run_pc, asked>>

InitDiscover ==
    /\ plan = [steps |-> <<>>]
    /\ pc = "idle"
    /\ idx = 0
    /\ step_result = EmptyDict
    /\ results = EmptyDict
    /\ calls = <<>>
    /\ exc = NoException
    /\ env = FullEnv
    /\ mcp_client \in {NewMCPClient, ConnectedClient(NewMCPClient.capabilities)}
    /\ console = NewConsole
    /\ run_pc = "discovering"
    /\ ext = <<>>
    /\ ret = NoReturn
    /\ asked = 0

NextDiscover == discover_capabilities

SpecDiscover == InitDiscover /\ [][NextDiscover]_vars

\* the position in ext of the last request of a kind, 0 if there is none
LastRequest(kind) ==
    LET S == {i \in DOMAIN ext : ext[i].request = kind}
    IN IF S = {} THEN 0 ELSE CHOOSE i \in S : \A j \in S : j <= i

\* the last discovery call sent this listing request and it failed
ListingFailedInLastCall(kind) ==
    /\ LastRequest(kind) > LastRequest("list_tools")
    /\ ~ext[LastRequest(kind)].ok

\* C11: a discovery call whose resource (prompt) listing fails returns
\* normally, and the 'resources' ('prompts') list it returns and stores is
\* empty whatever earlier discoveries had stored.
C11_FailedListingLeavesEmpty ==
    /\ ListingFailedInLastCall("list_resources") =>
         /\ ret.outcome = "returned"
         /\ ret.value.resources = <<>>
         /\ mcp_client.capabilities.resources = <<>>
    /\ ListingFailedInLastCall("list_prompts") =>
         /\ ret.outcome = "returned"
         /\ ret.value.prompts = <<>>
         /\ mcp_client.capabilities.prompts = <<>>

-----------------------------------------------------------------------------
(* The console's life: ResearchConsole.initialize, process_query, cleanup  *)
(* and run (console.py), over MCPClient.connect_to_server and cleanup      *)
(* (client.py).  A handler is one step; what the server, the language      *)
(* model and the terminal do is chosen by the step.                        *)

MaxQueries == 2

\* what the server offers in this part: tools only
ServerTools == <<SearchTool>>
ServerResources == <<>>
ServerPrompts == <<>>

FileNotFoundError == [exc |-> "FileNotFoundError", msg |-> "Tavily MCP server not found"]
AttributeError(m) == [exc |-> "AttributeError", msg |-> m]
EOFError == [exc |-> "EOFError", msg |-> "EOF when reading a line"]
ConnectError(what) == [exc |-> "Exception", msg |-> what \o " failed"]
LLMError == [exc |-> "Exception", msg |-> "api error"]

\* the result of running a handler's body: the objects afterwards, the
\* requests it sent, and NoException or the exception that left it
Effect(m, c, sent, e) == [client |-> m, console |-> c, sent |-> sent, error |-> e]

\* discover_capabilities as the console and connect_to_server call it;
\* ok says whether the tool listing is answered
Discover(m, ok) ==
    IF m.session = "None"
    THEN [client |-> m, sent |-> <<>>, error |-> ValueError("Client not initialized")]
    ELSE LET t == IF ok THEN Listed(ServerTools) ELSE ListingFailed
             r == Listed(ServerResources)
             q == Listed(ServerPrompts)
         IN [client |-> IF ok THEN [m EXCEPT !.capabilities = Discovered(@, t, r, q)]
                              ELSE m,
             sent |-> DiscoveryRequests(t, r, q),
             error |-> IF ok THEN NoException ELSE ListToolsError]

\* the places where initialize waits for something outside the process, in
\* order; k is the first of them that fails, NoFailure if none does
InitPoints ==
    <<"stdio_client", "ClientSession", "session.initialize",
      "discover_capabilities", "discover_capabilities", "analyze_capabilities">>
NoFailure == Len(InitPoints) + 1
FailurePoints == 1..NoFailure

\* client.py 107-114: the contexts pushed on the exit stack; a context
\* whose entering fails is not pushed
ContextsEntered(k) ==
    IF k = 1 THEN <<>>
    ELSE IF k = 2 THEN <<"stdio_client">>
    ELSE <<"stdio_client", "ClientSession">>

\* client.py 84-128
ConnectToServer(e, m, k) ==
    IF ~e.server_script
    THEN [client |-> m, sent |-> <<>>, error |-> FileNotFoundError]
    ELSE LET m1 == [m EXCEPT !.exit_stack = @ \o ContextsEntered(k),
                             !.session = IF k >= 3 THEN "ClientSession" ELSE @]
             opened == [i \in 1..(IF k < 3 THEN k ELSE 3) |->
                          Request("server", InitPoints[i], i # k)]
         IN IF k <= 3
            THEN [client |-> m1, sent |-> opened, error |-> ConnectError(InitPoints[k])]
            ELSE LET d == Discover(m1, k # 4)
                 IN [client |-> d.client, sent |-> opened \o d.sent, error |-> d.error]

\* as Activate, but the flag is set before the connection is made
ActivateEarly(c, done) == [c EXCEPT !.session_active = TRUE]

\* console.py 53: reached only when nothing before it raised
Activate(c, done) == IF done THEN [c EXCEPT !.session_active = TRUE] ELSE c

\* console.py 27-57
Initialize(e, m, c, k) ==
    IF ~e.ANTHROPIC_API_KEY
    THEN Effect(m, c, <<>>,
                ValueError("ANTHROPIC_API_KEY environment variable is required"))
    ELSE LET c1 == [c EXCEPT !.llm = "LLMOrchestrator"]
         IN IF ~e.TAVILY_API_KEY
            THEN Effect(m, Activate(c1, FALSE), <<>>,
                        ValueError("TAVILY_API_KEY environment variable is required"))
            ELSE LET conn == ConnectToServer(e, m, k)
                 IN IF conn.error # NoException
                    THEN Effect(conn.client, Activate(c1, FALSE), conn.sent, conn.error)
                    ELSE LET d == Discover(conn.client, k # 5)
                             sent == conn.sent \o d.sent
                         IN IF d.error # NoException
                            THEN Effect(d.client, Activate(c1, FALSE), sent, d.error)
                            ELSE Effect(d.client, Activate(c1, k # 6),
                                        Append(sent, Request("llm", "analyze_capabilities", k # 6)),
                                        IF k = 6 THEN LLMError ELSE NoException)

RECURSIVE CloseRequests(_)
\* AsyncExitStack.aclose leaves the contexts in the reverse of the order
\* in which they were entered
CloseRequests(stack) ==
    IF stack = <<>> THEN <<>>
    ELSE <<Request("server", "close " \o stack[Len(stack)], TRUE)>>
         \o CloseRequests(SubSeq(stack, 1, Len(stack) - 1))

\* console.py 59-70 over client.py 157-165: the stack is closed only when
\* a session was stored
Cleanup(m, c) ==
    IF m.session # "None"
    THEN Effect([m EXCEPT !.exit_stack = <<>>], c, CloseRequests(m.exit_stack), NoException)
    ELSE Effect(m, c, <<>>, NoException)

\* the stages of process_query that can raise, in order
QueryStages ==
    <<"discover_capabilities", "plan_research", "execute_research_plan", "analyze_results">>
NoStageFails == Len(QueryStages) + 1
StageFailures == 1..NoStageFails

\* the plans the planner returns in this part have no steps: the parsed
\* reply without steps, and the record returned for an unparsable reply
StepFreePlans == {[steps |-> <<>>], ErrorPlan}

Findings == [findings |-> <<"f1">>, recommendations |-> <<"r1">>]
Analyses == {Findings, EmptyDict}

\* as QueryRecord, but the analysis is left out
QueryRecordNoAnalysis(p, res, a) ==
    [plan |-> p, results |-> res, timestamp |-> res.metadata.start_time]

\* console.py 93-98
QueryRecord(p, res, a) ==
    [plan |-> p, results |-> res, analysis |-> a, timestamp |-> res.metadata.start_time]

\* as StoreResult, but an entry already stored under the text is kept
StoreResultKeepFirst(rs, query, record) ==
    IF Has(rs, query) THEN rs ELSE Put(rs, query, record)

\* console.py 93: self.results[query] = record
StoreResult(rs, query, record) == Put(rs, query, record)

\* console.py 106-116; every timestamp is the same instant in the model
GetSessionState(c) ==
    [active |-> c.session_active,
     current_query |-> c.current_query,
     query_count |-> Cardinality(DOMAIN c.results),
     latest_query |-> IF TruthyDict(c.results) THEN Some(Timestamp) ELSE None]

\* the planner's request; its prompt quotes the query (llm.py 57-63)
PlanRequest(query, ok) ==
    [to |-> "llm", request |-> "plan_research", ok |-> ok, query |-> query]

\* console.py 74: the query is let in
Guarded(c) == c.session_active /\ c.llm # "None"

\* console.py 72-104.  k is the first stage that raises: the tool listing
\* of the discovery, the planner's request, the executor (the planner
\* returned JSON that is not an object, so plan.get raises), the analysis
ProcessQuery(m, c, query, k, p, a) ==
    IF ~Guarded(c)
    THEN Effect(m, c, <<>>, ValueError("Console not initialized"))
    ELSE LET c1 == [c EXCEPT !.current_query = Some(query)]
             d == Discover(m, k # 1)
             planning == Append(d.sent, PlanRequest(query, k # 2))
             analysing == Append(planning, Request("llm", "analyze_results", k # 4))
             res == StampEnd(NewResults)
         IN IF k = 1 THEN Effect(d.client, c1, d.sent, d.error)
            ELSE IF k = 2 THEN Effect(d.client, c1, planning, LLMError)
            ELSE IF k = 3
                 THEN Effect(d.client, c1, planning,
                             AttributeError("'list' object has no attribute 'get'"))
            ELSE IF k = 4 THEN Effect(d.client, c1, analysing, LLMError)
            ELSE Effect(d.client,
                        [c1 EXCEPT !.results = StoreResult(@, query, QueryRecord(p, res, a))],
                        analysing, NoException)

\* how a call ended, from its effect
Outcome(op, eff, v) ==
    IF eff.error = NoException THEN ReturnedFrom(op, v) ELSE RaisedFrom(op, eff.error)

Printed(msg) == Request("terminal", msg, TRUE)

\* input() returned a line
Input(line) == [to |-> "terminal", request |-> "input", ok |-> TRUE, line |-> line]

\* input() raised
InputFailed == [to |-> "terminal", request |-> "input", ok |-> FALSE]

-----------------------------------------------------------------------------
(* The interactive loop: ResearchConsole.run (console.py 118-159)          *)

\* a line of input is a sequence of characters
Lines ==
    {<<"e", "x", "i", "t">>, <<" ", "Q", "u", "i", "t", " ">>,
     <<>>, <<" ">>, <<"q", "1">>, <<" ", "e", "x", "i", "t", "s">>}

RECURSIVE LStrip(_)
LStrip(l) == IF l # <<>> /\ Head(l) = " " THEN LStrip(Tail(l)) ELSE l

\* str.strip(): no blank is left at either end
Strip(l) == Reverse(LStrip(Reverse(LStrip(l))))

LowerChar(ch) ==
    CASE ch = "E" -> "e" [] ch = "X" -> "x" [] ch = "I" -> "i" [] ch = "T" -> "t"
      [] ch = "Q" -> "q" [] ch = "U" -> "u" [] OTHER -> ch

\* str.lower()
Lower(l) == [i \in DOMAIN l |-> LowerChar(l[i])]

\* console.py 130
IsExit(query) == Lower(query) \in {<<"e", "x", "i", "t">>, <<"q", "u", "i", "t">>}

\* the call changes the objects, sends its requests and ends as ret says;
\* before is what the terminal saw before the call, after what it saw next
Apply(before, eff, r, after) ==
    /\ mcp_client' = eff.client
    /\ console' = eff.console
    /\ ext' = ext \o before \o eff.sent \o after
    /\ ret' = r

ExecutorIdle == UNCHANGED <<plan, pc, idx, step_result, results, calls, exc>>

\* console.py 122-125 and 154-155: run calls initialize; a failure is
\* printed by the outer handler and leads to the finally clause
RunInitialize ==
    /\ run_pc = "run"
    /\ \E k \in FailurePoints :
         LET eff == Initialize(env, mcp_client, console, k)
         IN IF eff.error = NoException
            THEN /\ Apply(<<>>, eff, ReturnedFrom("initialize", None),
                          <<Printed("Research Console Ready!")>>)
                 /\ run_pc' = "prompt"
            ELSE /\ Apply(<<>>, eff, RaisedFrom("initialize", eff.error),
                          <<Printed("Console error")>>)
                 /\ run_pc' = "finally"
    /\ UNCHANGED <<env, asked>>
    /\ ExecutorIdle

\* console.py 128-131: the line read is 'exit' or 'quit'
RunExit ==
    /\ run_pc = "prompt"
    /\ \E line \in Lines :
         /\ IsExit(Strip(line))
         /\ ext' = Append(ext, Input(line))
         /\ run_pc' = "finally"
         /\ asked' = asked + 1
    /\ UNCHANGED <<env, mcp_client, console, ret>>
    /\ ExecutorIdle

\* console.py 133-134: an empty line is skipped
RunEmpty ==
    /\ run_pc = "prompt"
    /\ asked < MaxQueries
    /\ \E line \in Lines :
         /\ ~IsExit(Strip(line))
         /\ Strip(line) = <<>>
         /\ ext' = Append(ext, Input(line))
         /\ asked' = asked + 1
    /\ UNCHANGED <<env, mcp_client, console, run_pc, ret>>
    /\ ExecutorIdle

\* as QueryHandled, but the loop has no handler of its own: the error
\* reaches the outer handler
QueryUnhandled(eff) == IF eff.error = NoException THEN "prompt" ELSE "finally"

\* console.py 136-152: whatever process_query raises is caught inside the
\* loop, which goes on to the next line
QueryHandled(eff) == IF ExceptException(eff.error) \/ eff.error = NoException
                     THEN "prompt" ELSE "finally"

\* console.py 140-152: what the loop prints after the call
Display(eff, a) ==
    IF eff.error # NoException THEN <<Printed("Error processing query")>>
    ELSE IF TruthyDict(a) THEN <<Printed("Key Findings"), Printed("Recommendations")>>
    ELSE <<Printed("No analysis available for results")>>

\* console.py 128-152: a query is read and processed
RunQuery ==
    /\ run_pc = "prompt"
    /\ asked < MaxQueries
    /\ \E line \in Lines, k \in StageFailures, p \in StepFreePlans, a \in Analyses :
         LET query == Strip(line)
             eff == ProcessQuery(mcp_client, console, query, k, p, a)
         IN /\ ~IsExit(query)
            /\ query # <<>>
            /\ Apply(<<Input(line)>>, eff,
                     Outcome("process_query", eff, QueryRecord(p, StampEnd(NewResults), a)),
                     Display(eff, a))
            /\ run_pc' = QueryHandled(eff)
            /\ asked' = asked + 1
    /\ UNCHANGED env
    /\ ExecutorIdle

\* console.py 128 and 154-155: input() raises at the end of the input;
\* the call is outside the loop's own handler
RunEndOfInput ==
    /\ run_pc = "prompt"
    /\ ext' = ext \o <<InputFailed, Printed("Console error")>>
    /\ run_pc' = "finally"
    /\ asked' = asked + 1
    /\ UNCHANGED <<env, mcp_client, console, ret>>
    /\ ExecutorIdle

\* console.py 157-159
RunFinally ==
    /\ run_pc = "finally"
    /\ LET eff == Cleanup(mcp_client, console)
       IN Apply(<<>>, eff, ReturnedFrom("cleanup", None), <<Printed("Session ended.")>>)
    /\ run_pc' = "ended"
    /\ UNCHANGED <<env, asked>>
    /\ ExecutorIdle

-----------------------------------------------------------------------------
(* A program that drives the console through its methods instead of run    *)

\* initialize, called once on a new console
ApiInitialize ==
    /\ run_pc = "api_new"
    /\ \E k \in FailurePoints :
         LET eff == Initialize(env, mcp_client, console, k)
         IN /\ Apply(<<>>, eff, Outcome("initialize", eff, None), <<>>)
            /\ run_pc' = IF eff.error = NoException THEN "api_active" ELSE "api_failed"
    /\ UNCHANGED <<env, asked>>
    /\ ExecutorIdle

\* the query texts the driving program submits
ApiQueries == {<<"q", "1">>, <<"q", "2">>}

\* process_query, called at any time
ApiProcessQuery ==
    /\ run_pc \in {"api_new", "api_failed", "api_active", "api_closed"}
    /\ asked < MaxQueries
    /\ \E query \in ApiQueries, k \in StageFailures, p \in StepFreePlans, a \in Analyses :
         LET eff == ProcessQuery(mcp_client, console, query, k, p, a)
         IN Apply(<<>>, eff,
                  Outcome("process_query", eff, QueryRecord(p, StampEnd(NewResults), a)),
                  <<>>)
    /\ asked' = asked + 1
    /\ UNCHANGED <<env, run_pc>>
    /\ ExecutorIdle

\* cleanup, called once, after initialize
ApiCleanup ==
    /\ run_pc \in {"api_failed", "api_active"}
    /\ LET eff == Cleanup(mcp_client, console)
       IN Apply(<<>>, eff, ReturnedFrom("cleanup", None), <<>>)
    /\ run_pc' = "api_closed"
    /\ UNCHANGED <<env, asked>>
    /\ ExecutorIdle

\* get_session_state, called at any time; it changes nothing
ApiGetSessionState ==
    /\ run_pc \in {"api_new", "api_failed", "api_active", "api_closed"}
    /\ ret' = ReturnedFrom("get_session_state", GetSessionState(console))
    /\ UNCHANGED <<env, mcp_client, console, run_pc, ext, asked>>
    /\ ExecutorIdle

Environments == [ANTHROPIC_API_KEY : BOOLEAN, TAVILY_API_KEY : BOOLEAN, server_script : BOOLEAN]

InitRun ==
    /\ plan = [steps |-> <<>>]
    /\ pc = "idle"
    /\ idx = 0
    /\ step_result = EmptyDict
    /\ results = EmptyDict
    /\ calls = <<>>
    /\ exc = NoException
    /\ env \in Environments
    /\ mcp_client = NewMCPClient
    /\ console = NewConsole
    /\ run_pc \in {"run", "api_new"}
    /\ ext = <<>>
    /\ ret = NoReturn
    /\ asked = 0

NextRun ==
    \/ RunInitialize
    \/ RunExit
    \/ RunEmpty
    \/ RunQuery
    \/ RunEndOfInput
    \/ RunFinally
    \/ ApiInitialize
    \/ ApiProcessQuery
    \/ ApiCleanup
    \/ ApiGetSessionState

SpecRun == InitRun /\ [][NextRun]_vars

-----------------------------------------------------------------------------
(* Claims about the console's life *)

\* the session is Active: initialize has succeeded and cleanup has not run
Active == run_pc \in {"prompt", "api_active"}

\* this step is a call of process_query by the driving program
QuerySubmitted == run_pc' = run_pc /\ asked' = asked + 1 /\ ret'.op = "process_query"

ServerRequests(log) == {i \in DOMAIN log : log[i].to = "server"}
OutsideRequests(log) == {i \in DOMAIN log : log[i].to \in {"server", "llm"}}

\* C12: process_query is accepted only while the session is Active: called
\* before initialize has succeeded, after it has failed, or after cleanup,
\* it raises and makes no external call.
C12_AcceptedOnlyWhileActive ==
    [][(QuerySubmitted /\ ~Active) =>
         /\ ret'.outcome = "raised"
         /\ OutsideRequests(ext') = OutsideRequests(ext)]_vars

MissingCredential == ~env.ANTHROPIC_API_KEY \/ ~env.TAVILY_API_KEY

TimesPrinted(msg) ==
    Cardinality({i \in DOMAIN ext : ext[i].to = "terminal" /\ ext[i].request = msg})

\* C13: with either credential absent, initialize raises, the session never
\* becomes active, no connection to the server is attempted, and
\* initialization is not tried again.
C13_MissingCredentialIsFatal ==
    MissingCredential =>
      /\ ~console.session_active
      /\ ~Active
      /\ ret.op = "initialize" => ret.outcome = "raised" /\ ret.value.exc = "ValueError"
      /\ ServerRequests(ext) = {}
      /\ mcp_client.exit_stack = <<>>
      /\ mcp_client.session = "None"
      /\ TimesPrinted("Console error") <= 1

\* run has ended after initialize failed on the second credential
C13_Witness ==
    /\ MissingCredential
    /\ ret.op = "cleanup"
    /\ run_pc = "ended"
    /\ TimesPrinted("Console error") = 1
    /\ console.llm # "None"

\* in this step the loop read a query and process_query raised
QueryRaised ==
    /\ run_pc = "prompt"
    /\ asked' = asked + 1
    /\ OutsideRequests(ext') # OutsideRequests(ext)
    /\ ret'.op = "process_query"
    /\ ret'.outcome = "raised"

\* in this step the loop was left
LoopLeft == run_pc = "prompt" /\ run_pc' # "prompt"

LastOf(log) == log[Len(log)]

\* the lines read so far
Inputs(log) == {i \in DOMAIN log : log[i].request = "input"}
LastInput(log) == log[CHOOSE i \in Inputs(log) : \A j \in Inputs(log) : j <= i]

\* a failed query is reported and the loop waits for the next line, with
\* the session as active as before
LoopSurvivesQuery ==
    QueryRaised =>
      /\ run_pc' = "prompt"
      /\ LastOf(ext') = Printed("Error processing query")
      /\ console'.session_active
      /\ Guarded(console')
      /\ mcp_client'.session = mcp_client.session
      /\ mcp_client'.exit_stack = mcp_client.exit_stack

\* C16: a query whose processing raises leaves the loop running: the error
\* is printed, the session stays active and the next query is accepted;
\* only 'exit' or 'quit' ends a loop that was entered.
C16_OnlyExitEndsLoop ==
    [][/\ LoopSurvivesQuery
       /\ LoopLeft =>
            /\ LastOf(ext') = LastInput(ext')
            /\ LastInput(ext').ok
            /\ IsExit(Strip(LastInput(ext').line))]_vars

\* C16, amended: as above, but the loop also ends when reading the next
\* line fails (the end of the input is reached); the handler around the
\* loop then prints the error.
C16_ExitOrEndOfInputEndsLoop ==
    [][/\ LoopSurvivesQuery
       /\ LoopLeft =>
            \/ /\ LastOf(ext') = LastInput(ext')
               /\ LastInput(ext').ok
               /\ IsExit(Strip(LastInput(ext').line))
            \/ /\ ~LastInput(ext').ok
               /\ LastOf(ext') = Printed("Console error")]_vars

\* a query has failed, a later one has been answered, and the user has
\* then left the loop
C16_Witness ==
    /\ run_pc = "finally"
    /\ TimesPrinted("Error processing query") >= 1
    /\ ret.op = "process_query"
    /\ ret.outcome = "returned"
    /\ LastInput(ext).ok

\* C20: whenever run has ended, cleanup has been executed and every
\* context that connect_to_server entered on the exit stack has been
\* closed, also when the connection failed after the transport was opened.
C20_EverythingEnteredIsClosed ==
    run_pc = "ended" =>
      /\ ret.op = "cleanup"
      /\ LastOf(ext) = Printed("Session ended.")
      /\ mcp_client.exit_stack = <<>>
      /\ \A i \in ServerRequests(ext) :
           (ext[i].request \in {"stdio_client", "ClientSession"} /\ ext[i].ok) =>
             \E j \in ServerRequests(ext) :
               j > i /\ ext[j].request = "close " \o ext[i].request

-----------------------------------------------------------------------------
(* Termination of execute_research_plan *)

\* the steps the executor takes by itself; the event loop runs the
\* coroutine whenever it is not waiting
ExecutorSteps == Enter \/ StepCall \/ StepNoBranch \/ StepKeyError \/ Return

\* the ends of the calls the executor waits for
ClientReplies == PrimaryReturn \/ PrimaryRaise \/ FallbackReturn \/ FallbackRaise

\* the executor is scheduled, and every dispatched client call eventually
\* returns or raises
SpecFair == Init /\ [][Next]_vars /\ WF_vars(ExecutorSteps) /\ WF_vars(ClientReplies)

AwaitingClient == pc \in {"await_primary", "await_fallback"}

\* the call dispatched last has neither returned nor raised
LastCallPending == calls # <<>> /\ calls[Len(calls)].reply = Pending

Stamped == Entered /\ Has(results.metadata, "end_time")

\* C17: if every dispatched client call eventually returns or raises, the
\* execution of a finite plan terminates, and the report it returns carries
\* end_time, stamped after the last step; as long as a client call has not
\* returned, the execution waits for it and does not complete.
C17_TerminatesAndStamps ==
    /\ <>(Done /\ Stamped /\ Len(results.steps) = N)
    /\ [](Stamped => Done /\ Len(results.steps) = N)
    /\ [](LastCallPending <=> AwaitingClient)
    /\ [](LastCallPending => ~Done /\ ~Stamped /\ Len(results.steps) < N)

\* a plan of full length has been executed, with calls made on the way
C17_Witness ==
    /\ Done
    /\ Stamped
    /\ N = MaxSteps
    /\ Len(calls) > N

-----------------------------------------------------------------------------
(* One query from end to end: ResearchConsole.process_query over the       *)
(* planner and analyser of LLMOrchestrator, the executor above and the     *)
(* repository's own MCPClient                                              *)

\* the texts the language model answers with
PlanText1 == "{\"steps\": [{\"type\": \"tool\", \"name\": \"search\", \"parameters\": \"q\"}]}"
PlanText2 ==
    "{\"steps\": [{\"type\": \"tool\", \"name\": \"search\", \"parameters\": \"q\", "
    \o "\"fallback\": {\"type\": \"resource\", \"uri\": \"doc\"}}, "
    \o "{\"type\": \"resource\", \"uri\": \"doc\"}]}"
PlanText3 ==
    "{\"steps\": [{\"type\": \"prompt\", \"name\": \"summarize\", \"arguments\": \"a\"}, "
    \o "{\"type\": \"tool\", \"name\": \"search\", \"parameters\": \"q\", "
    \o "\"fallback\": {\"type\": \"tool\", \"name\": \"search\", \"parameters\": \"deeper\"}}]}"
PlanText4 == "{\"steps\": [{\"type\": \"shell\", \"name\": \"ls\"}, {\"name\": \"search\"}]}"
OutlineText == "{\"approach\": \"search the web first\"}"
FindingsText == "{\"findings\": [\"f1\"], \"recommendations\": [\"r1\"]}"
ProseText == "Here is the plan: first search the web."
TruncatedText == "{\"steps\": [{\"type\": \"tool\""

\* json.loads on the texts above: the value of a JSON document, or
\* JSONDecodeError for anything else
JsonTexts == {PlanText1, PlanText2, PlanText3, PlanText4, OutlineText, FindingsText}

JsonValue(text) ==
    CASE text = PlanText1 -> [steps |-> <<ToolStep>>]
      [] text = PlanText2 -> [steps |-> <<Put(ToolStep, "fallback", ResourceStep), ResourceStep>>]
      [] text = PlanText3 -> [steps |-> <<PromptStep, Put(ToolStep, "fallback", NestedStep)>>]
      [] text = PlanText4 -> [steps |-> <<OtherStep, NoTypeStep>>]
      [] text = OutlineText -> [approach |-> "search the web first"]
      [] text = FindingsText -> Findings

JsonLoads(text) ==
    IF text \in JsonTexts THEN [ok |-> TRUE, value |-> JsonValue(text)] ELSE [ok |-> FALSE]

\* what messages.create does: it raises, or returns a response whose
\* content is a list of blocks of text
ApiError == [kind |-> "error"]
Response(content) == [kind |-> "response", content |-> content]

PlanReplies ==
    {ApiError, Response(<<>>)}
    \cup {Response(<<t>>) : t \in {PlanText1, PlanText2, PlanText3, PlanText4, OutlineText,
                                   ProseText, TruncatedText, ""}}

AnalysisReplies ==
    {ApiError, Response(<<>>)}
    \cup {Response(<<t>>) : t \in {FindingsText, OutlineText, ProseText, ""}}

\* as InvalidResponse, but the reply text is not kept
InvalidResponseBare(text) == [error |-> "Invalid JSON response"]

\* llm.py 85-90 and 205-210
InvalidResponse(text) == [error |-> "Invalid JSON response", raw_response |-> text]

\* llm.py 91-93 and 211-213
NoContent == [error |-> "No response content available"]

\* llm.py 81-93 and 201-213: what plan_research and analyze_results return
\* for a response
ParseResponse(reply) ==
    IF reply.content = <<>> THEN NoContent
    ELSE LET text == reply.content[1]
             j == JsonLoads(text)
         IN IF j.ok THEN j.value ELSE InvalidResponse(text)

\* client.py 146-151: the dict execute_tool returns, written out; it is
\* not empty whatever the server's content is
ToolResult(name, params, content) ==
    "{tool: " \o name \o ", parameters: " \o params \o ", result: " \o content \o "}"

Contents == {"", "c1"}

\* as ExecuteToolRefusal, but any name is forwarded on a connected client
ExecuteToolUnchecked(m, name) ==
    IF m.session = "None" THEN ValueError("Client not initialized") ELSE NoException

\* client.py 132-140: the exception execute_tool raises before it would
\* contact the server, NoException if it forwards the call
ExecuteToolRefusal(m, name) ==
    IF m.session = "None" THEN ValueError("Client not initialized")
    ELSE IF \A i \in DOMAIN m.capabilities.tools : m.capabilities.tools[i].name # name
         THEN ValueError("Tool not found: " \o name)
    ELSE NoException

\* the methods MCPClient defines for the executor to call (client.py 16-165)
ClientMethods == {"execute_tool"}

\* what the client does with a call before any request leaves the process
Refusal(m, call) ==
    IF call.op \notin ClientMethods
    THEN AttributeError("'MCPClient' object has no attribute '" \o call.op \o "'")
    ELSE ExecuteToolRefusal(m, call.args[1])

\* the call in flight
InFlight == calls[Len(calls)]

\* llm.py 140-164: the executor goes on after the awaited call ended as r
Replied(r) ==
    IF pc = "await_primary"
    THEN IF r.kind = "return"
         THEN EndIteration(CountSuccess(results),
                           MarkCompleted(StoreData(step_result, r.value)),
                           Reply(calls, r))
         ELSE PrimaryRaised(idx, step_result, r.e, Reply(calls, r))
    ELSE IF r.kind = "return"
         THEN EndIteration(results, FallbackSucceeded(step_result, r.value), Reply(calls, r))
         ELSE FallbackRaised(results, step_result, r.e, Reply(calls, r))

QueryIdle == UNCHANGED <<env, console, run_pc, ret, asked>>

\* the client raises without contacting the server
ClientRefuses ==
    /\ AwaitingClient
    /\ Refusal(mcp_client, InFlight) # NoException
    /\ Replied(Raised(Refusal(mcp_client, InFlight)))
    /\ UNCHANGED <<plan, idx, mcp_client, ext>>
    /\ QueryIdle

\* client.py 144-151: the call is forwarded and the server answers
ServerReturns ==
    /\ AwaitingClient
    /\ Refusal(mcp_client, InFlight) = NoException
    /\ \E content \in Contents :
         Replied(Returned(ToolResult(InFlight.args[1], InFlight.args[2], content)))
    /\ ext' = Append(ext, Request("server", "call_tool", TRUE))
    /\ UNCHANGED <<plan, idx, mcp_client>>
    /\ QueryIdle

\* client.py 144, 153-155: the call is forwarded and fails
ServerRaises ==
    /\ AwaitingClient
    /\ Refusal(mcp_client, InFlight) = NoException
    /\ Replied(Raised(ClientError))
    /\ ext' = Append(ext, Request("server", "call_tool", FALSE))
    /\ UNCHANGED <<plan, idx, mcp_client>>
    /\ QueryIdle

\* a request to the language model, with what came back
Asked(request, reply) ==
    [to |-> "llm", request |-> request, ok |-> reply # ApiError, reply |-> reply]

TheQuery == <<"q", "1">>

\* console.py 74-81: the guard, and the discovery
QueryDiscover ==
    /\ run_pc = "called"
    /\ IF ~Guarded(console)
       THEN /\ ret' = RaisedFrom("process_query", ValueError("Console not initialized"))
            /\ run_pc' = "raised"
            /\ UNCHANGED <<mcp_client, console, ext>>
       ELSE \E t \in {ListingFailed, Listed(<<SearchTool>>), Listed(<<ExtractTool>>)} :
            LET r == Listed(<<DocResource>>)
                q == Listed(<<SummarizePrompt>>)
            IN /\ console' = [console EXCEPT !.current_query = Some(TheQuery)]
               /\ ext' = ext \o DiscoveryRequests(t, r, q)
               /\ IF t.ok
                  THEN /\ mcp_client' = [mcp_client EXCEPT
                                           !.capabilities = Discovered(@, t, r, q)]
                       /\ run_pc' = "planning"
                       /\ UNCHANGED ret
                  ELSE /\ ret' = RaisedFrom("process_query", ListToolsError)
                       /\ run_pc' = "raised"
                       /\ UNCHANGED mcp_client
    /\ UNCHANGED <<env, asked>>
    /\ ExecutorIdle

\* console.py 84 over llm.py 54-97
QueryPlan ==
    /\ run_pc = "planning"
    /\ \E reply \in PlanReplies :
         /\ ext' = Append(ext, Asked("plan_research", reply))
         /\ IF reply = ApiError
            THEN /\ ret' = RaisedFrom("process_query", LLMError)
                 /\ run_pc' = "raised"
                 /\ UNCHANGED <<plan, pc>>
            ELSE /\ plan' = ParseResponse(reply)
                 /\ pc' = "idle"
                 /\ run_pc' = "executing"
                 /\ UNCHANGED ret
    /\ UNCHANGED <<idx, step_result, results, calls, exc>>
    /\ UNCHANGED <<env, mcp_client, console, asked>>

\* console.py 90-100 over llm.py 173-217
QueryAnalyze ==
    /\ run_pc = "executing"
    /\ pc = "returned"
    /\ \E reply \in AnalysisReplies :
         /\ ext' = Append(ext, Asked("analyze_results", reply))
         /\ IF reply = ApiError
            THEN /\ ret' = RaisedFrom("process_query", LLMError)
                 /\ run_pc' = "raised"
                 /\ UNCHANGED console
            ELSE LET record == QueryRecord(plan, results, ParseResponse(reply))
                 IN /\ console' = [console EXCEPT !.results = StoreResult(@, TheQuery, record)]
                    /\ ret' = ReturnedFrom("process_query", record)
                    /\ run_pc' = "returned"
    /\ UNCHANGED <<env, mcp_client, asked>>
    /\ ExecutorIdle

\* the capabilities a first discovery has stored
FirstCapabilities ==
    [tools |-> <<SearchTool>>, resources |-> <<DocResource>>, prompts |-> <<SummarizePrompt>>]

ActiveConsole == [NewConsole EXCEPT !.session_active = TRUE, !.llm = "LLMOrchestrator"]

\* process_query is called on a console, initialized or not; or the
\* executor is called directly with a plan and a client, connected or not
InitQuery ==
    /\ idx = 0
    /\ step_result = EmptyDict
    /\ results = EmptyDict
    /\ calls = <<>>
    /\ exc = NoException
    /\ env = FullEnv
    /\ ext = <<>>
    /\ ret = NoReturn
    /\ asked = 0
    /\ \/ /\ run_pc = "called"
          /\ pc = "not called"
          /\ plan = None
          /\ \/ console = ActiveConsole /\ mcp_client = ConnectedClient(FirstCapabilities)
             \/ console = NewConsole /\ mcp_client = NewMCPClient
       \/ /\ run_pc = "direct"
          /\ pc = "idle"
          /\ plan \in {JsonValue(PlanText1), JsonValue(PlanText2)}
          /\ console = NewConsole
          /\ mcp_client \in {NewMCPClient, ConnectedClient(FirstCapabilities)}

NextQuery ==
    \/ QueryDiscover
    \/ QueryPlan
    \/ Enter
    \/ StepCall
    \/ StepNoBranch
    \/ StepKeyError
    \/ ClientRefuses
    \/ ServerReturns
    \/ ServerRaises
    \/ Return
    \/ QueryAnalyze

SpecQuery == InitQuery /\ [][NextQuery]_vars

-----------------------------------------------------------------------------
(* Claims about one query *)

\* process_query was called, on an initialized console
ViaConsole == run_pc \in {"called", "planning", "executing", "returned", "raised"}

\* the stage a request belongs to
Rank(request) ==
    CASE request \in {"list_tools", "list_resources", "list_prompts"} -> 1
      [] request = "plan_research" -> 2
      [] request = "call_tool" -> 3
      [] request = "analyze_results" -> 4

Stage(request) == {i \in DOMAIN ext : ext[i].request = request}

\* the requests whose failure is a failure of discovery, planning or analysis
StageRequests == {"list_tools", "plan_research", "analyze_results"}

\* C14: process_query runs discovery, planning, execution and analysis in
\* that order; a failure of discovery, planning or analysis propagates and
\* aborts the query, nothing later is run; failures of plan steps or of
\* their fallbacks never abort it: analysis still runs and the record
\* {plan, results, analysis, timestamp} is returned.
C14_StagesInOrder ==
    ViaConsole =>
      /\ \A i, j \in DOMAIN ext : i < j => Rank(ext[i].request) <= Rank(ext[j].request)
      /\ \A i \in Stage("plan_research") : \E j \in Stage("list_tools") : ext[j].ok
      /\ \A i \in Stage("call_tool") : \E j \in Stage("plan_research") : ext[j].ok
      /\ \A i \in Stage("analyze_results") :
           /\ \E j \in Stage("plan_research") : ext[j].ok
           /\ Done
           /\ Len(results.steps) = N
      /\ \A i \in DOMAIN ext :
           (ext[i].request \in StageRequests /\ ~ext[i].ok) =>
             /\ i = Len(ext)
             /\ run_pc = "raised"
             /\ ret.outcome = "raised"
             /\ ext[i].request # "analyze_results" => pc = "not called"
      /\ (run_pc = "raised" /\ ext # <<>>) =>
           LastOf(ext).request \in StageRequests /\ ~LastOf(ext).ok
      /\ pc # "raised"
      /\ run_pc = "returned" =>
           /\ Stage("analyze_results") # {}
           /\ ret.outcome = "returned"
           /\ DOMAIN ret.value = {"plan", "results", "analysis", "timestamp"}
           /\ ret.value.plan = plan
           /\ ret.value.results = results
           /\ ret.value.analysis = ParseResponse(LastOf(ext).reply)
           /\ ret.value.timestamp = results.metadata.start_time
           /\ console.results[TheQuery] = ret.value

\* a query has been answered although a step and its fallback both failed
C14_Witness ==
    /\ run_pc = "returned"
    /\ results.metadata.failure_count > 0
    /\ \E k \in DOMAIN calls : calls[k].phase = "fallback" /\ calls[k].reply.kind = "raise"
    /\ \E i \in Stage("call_tool") : ~ext[i].ok

\* the replies with a text, by request
TextReplies(request) ==
    {i \in Stage(request) : ext[i].ok /\ ext[i].reply.content # <<>>}

ReplyText(i) == ext[i].reply.content[1]

\* the texts that are a plan, and those that are an analysis
PlanSchemaTexts == {PlanText1, PlanText2, PlanText3, PlanText4}
AnalysisSchemaTexts == {FindingsText}

\* planning, and analysis, have returned Invalid for every text outside Good
InvalidReported(GoodPlans, GoodAnalyses) ==
    /\ \A i \in TextReplies("plan_research") :
         ReplyText(i) \notin GoodPlans =>
           /\ run_pc \in {"executing", "returned"} \/ i < Len(ext)
           /\ DOMAIN plan = {"error", "raw_response"}
           /\ plan.error = "Invalid JSON response"
           /\ plan.raw_response = ReplyText(i)
    /\ \A i \in TextReplies("analyze_results") :
         ReplyText(i) \notin GoodAnalyses =>
           /\ run_pc = "returned"
           /\ DOMAIN ret.value.analysis = {"error", "raw_response"}
           /\ ret.value.analysis.error = "Invalid JSON response"
           /\ ret.value.analysis.raw_response = ReplyText(i)

ToolNames(m) == {m.capabilities.tools[i].name : i \in DOMAIN m.capabilities.tools}

ToolCalls == {k \in DOMAIN calls : calls[k].op = "execute_tool" /\ calls[k].reply # Pending}

\* the call reached the server: it returned, or the server's error came back
Forwarded(k) ==
    \/ calls[k].reply.kind = "return"
    \/ calls[k].reply.kind = "raise" /\ calls[k].reply.e = ClientError

Served(op) == {i \in DOMAIN ext : ext[i].to = "server" /\ ext[i].request = op}

\* C19: against the repository's own MCPClient, a resource step is
\* dispatched to the client's read_resource operation and a prompt step to
\* its get_prompt operation, and the step ends completed whenever the
\* server serves the request.
C19_ResourcesAndPromptsServed ==
    \A i \in Reported :
      LET s == InputSteps[i]
      IN (WellFormed(s) /\ s.type \in {"resource", "prompt"}) =>
           /\ \E k \in CallsFor("primary", i) : calls[k].op = Invocation(s)[1]
           /\ Served(Invocation(s)[1]) # {}
           /\ \A j \in Served(Invocation(s)[1]) :
                ext[j].ok => IsCompleted(results.steps[i])

-----------------------------------------------------------------------------
(* Claims about the console's stored results *)

\* this step is a call of process_query, from the loop or from a program
QueryCalled ==
    /\ asked' = asked + 1
    /\ ret'.op = "process_query"
    /\ \/ run_pc \in {"api_new", "api_failed", "api_active", "api_closed"}
       \/ OutsideRequests(ext') # OutsideRequests(ext)

\* the planner's requests of the queries that went through all stages:
\* the analyser's answered request follows at once
Succeeded(log) ==
    {i \in DOMAIN log :
       /\ log[i].request = "plan_research"
       /\ i < Len(log)
       /\ log[i + 1].request = "analyze_results"
       /\ log[i + 1].ok}

\* the distinct query texts processed successfully so far
SucceededTexts(log) == {log[i].query : i \in Succeeded(log)}

\* C21: a process_query call that raises leaves the stored results map
\* unchanged; a successful call stores exactly one entry under the query
\* text, overwriting an earlier entry for the same text; so the query_count
\* of get_session_state always equals the number of distinct query texts
\* processed successfully.
C21_ResultsPerSuccessfulQuery ==
    /\ [][QueryCalled =>
            /\ ret'.outcome = "raised" => console'.results = console.results
            /\ ret'.outcome = "returned" =>
                 LET query == console'.current_query[1]
                 IN /\ DOMAIN console'.results = DOMAIN console.results \cup {query}
                    /\ console'.results[query] = ret'.value
                    /\ \A q \in DOMAIN console.results \ {query} :
                         console'.results[q] = console.results[q]]_vars
    /\ [](/\ DOMAIN console.results = SucceededTexts(ext)
          /\ GetSessionState(console).query_count = Cardinality(SucceededTexts(ext))
          /\ ret.op = "get_session_state" =>
               ret.value.query_count = Cardinality(SucceededTexts(ext)))

\* the same text has been processed successfully twice with different
\* analyses, the later record has replaced the earlier one, and the state
\* has been read
C21_Witness ==
    /\ Cardinality(Succeeded(ext)) = 2
    /\ Cardinality(SucceededTexts(ext)) = 1
    /\ ret.op = "get_session_state"
    /\ ret.value.query_count = 1
    /\ \E q \in DOMAIN console.results : console.results[q].analysis = EmptyDict

=============================================================================
